---- MODULE Spec2Model ----
(***************************************************************************)
(* Gaze estimator (src/src/gaze_detection.cpp) and real-time session state *)
(* (src/src/advanced_features.cpp) of the cor gaze library.                *)
(*                                                                         *)
(* Fixed-point representation of the C floats:                             *)
(*   normalized coordinate  c  ->  c * Scale      (Scale     = 10000)      *)
(*   confidence             c  ->  c * ConfScale  (ConfScale = 8000)       *)
(*   config factors (ratio, sensitivity, alpha) in tenths                  *)
(*   pixel positions are whole pixels; averages are kept in 1/4 pixel      *)
(*   timestamps are ticks of the capture clock                             *)
(***************************************************************************)
EXTENDS Integers, Sequences, FiniteSets, TLC

VARIABLES
    gaze_config,      \* static gaze_config           gaze_detection.cpp:10-24
    prev_gaze,        \* static GazePoint prev_gaze   gaze_detection.cpp:27
    prev_gaze_valid,  \* static bool prev_gaze_valid  gaze_detection.cpp:28
    realtime_state,   \* static realtime_state        advanced_features.cpp:15-20
    now,              \* tick clock read by detect_eyes_in_frame
    eye_data,         \* the EyeDetectionResult of the last frame / call
    last_op,          \* the operation that returned last, with its outcome
    ret_point,        \* the GazePoint the last operation returned (else zero)
    ret_code,         \* the int the last operation returned (else 0)
    ingested,         \* points appended to the buffer since it was last cleared
    gaze_points,      \* the sequence handed to the event classifier
    event_out,        \* what the last event-classifier call returned
    first_saccades,   \* what the first detect_saccades call returned
    heat_in,          \* the arguments of generate_heatmap
    heat_out          \* what generate_heatmap did and returned

\* the estimator and the real-time session
session_vars == <<gaze_config, prev_gaze, prev_gaze_valid, realtime_state, now,
                  eye_data, last_op, ret_point, ret_code, ingested>>

\* the event classifier, the summarizer and the heatmap engine
analysis_vars == <<gaze_points, event_out, first_saccades, heat_in, heat_out>>

vars == <<session_vars, analysis_vars>>

----------------------------------------------------------------------------
\* Representation

Scale == 10000

ConfScale == 8000

Tenth == 10

\* Bounds of the model
MaxTime == 4

max_history_size == 2

Max(a, b) == IF a >= b THEN a ELSE b

Min(a, b) == IF a <= b THEN a ELSE b

Abs(a) == IF a >= 0 THEN a ELSE -a

\* x / d rounded to the nearest grid value (d > 0, halves round up)
RoundDiv(x, d) == (2 * x + d) \div (2 * d)

----------------------------------------------------------------------------
\* Data structures (include/cor.h)

EyeRegion(x, y, w, h, c) == [x |-> x, y |-> y, width |-> w, height |-> h, confidence |-> c]

PupilData(x, y, r, c) == [x |-> x, y |-> y, radius |-> r, confidence |-> c]

GazePoint(x, y, c, t) == [x |-> x, y |-> y, confidence |-> c, timestamp |-> t]

ZeroGaze == GazePoint(0, 0, 0, 0)

DefaultGazeConfig ==
    [sensitivity_x |-> 10, sensitivity_y |-> 10,
     offset_x |-> 0, offset_y |-> 0,
     pupil_to_gaze_ratio_x |-> 8, pupil_to_gaze_ratio_y |-> 8,
     gaze_center_x |-> 5000, gaze_center_y |-> 5000,
     smoothing_factor |-> 3,
     min_confidence_threshold |-> 5600,
     max_gaze_angle |-> 45]

----------------------------------------------------------------------------
\* Gaze estimator: calculate_gaze_direction

\* std::max(0.0f, std::min(1.0f, v))
ClampNoUpper(v) == Max(0, v)

Clamp01(v) == Max(0, Min(Scale, v))

\* 4 * average pupil position
AvgPupil4(l, r) == 2 * (l + r)

\* 4 * average eye centre along one axis: ((lx + lw/2) + (rx + rw/2)) / 2
AvgEye4(lx, lw, rx, rw) == 2 * lx + lw + 2 * rx + rw

\* gaze displacement in 1/400 pixel: displacement * ratio * sensitivity
GazeDisplacement(disp4, ratio, sens) == disp4 * ratio * sens

\* centre + displacement / 1000 + offset, on the coordinate grid, unclamped
\* (one grid step is 1000 * 400 / Scale units of displacement)
GazePosition(center, gd, offset) ==
    center + RoundDiv(gd, (1000 * 4 * Tenth * Tenth) \div Scale) + offset

\* fabs(atan2(dy, dx) * 180 / PI) > max_gaze_angle.  max_gaze_angle keeps its
\* default of 45 degrees in this model, for which the test is: the direction
\* lies outside the closed cone |dy| <= dx (atan2(0, 0) = 0 lies inside)
ExtremeAngle(gdx, gdy, cfg) == ~(gdx >= 0 /\ Abs(gdy) <= gdx)

\* (a + b) / 2.0f on confidences
Mean(a, b) == (a + b) \div 2

\* confidence before smoothing: mean of eye and pupil confidence, halved
\* for an extreme angle
GazeConfidence(e, gdx, gdy, cfg) ==
    LET avg_eye_confidence == Mean(e.left_eye.confidence, e.right_eye.confidence)
        avg_pupil_confidence == Mean(e.left_pupil.confidence, e.right_pupil.confidence)
        c == Mean(avg_eye_confidence, avg_pupil_confidence)
    IN IF ExtremeAngle(gdx, gdy, cfg) THEN c \div 2 ELSE c

\* the clamped, unsmoothed estimate of a valid detection (lines 42-77)
RawGaze(e, cfg) ==
    LET gdx == GazeDisplacement(AvgPupil4(e.left_pupil.x, e.right_pupil.x)
                                  - AvgEye4(e.left_eye.x, e.left_eye.width,
                                            e.right_eye.x, e.right_eye.width),
                                cfg.pupil_to_gaze_ratio_x, cfg.sensitivity_x)
        gdy == GazeDisplacement(AvgPupil4(e.left_pupil.y, e.right_pupil.y)
                                  - AvgEye4(e.left_eye.y, e.left_eye.height,
                                            e.right_eye.y, e.right_eye.height),
                                cfg.pupil_to_gaze_ratio_y, cfg.sensitivity_y)
    IN GazePoint(Clamp01(GazePosition(cfg.gaze_center_x, gdx, cfg.offset_x)),
                 Clamp01(GazePosition(cfg.gaze_center_y, gdy, cfg.offset_y)),
                 GazeConfidence(e, gdx, gdy, cfg),
                 e.timestamp)

\* the point returned for an invalid detection (lines 32-40)
SentinelNoStamp(e) == GazePoint(0, 0, 0, 0)

InvalidGaze(e) == GazePoint(0, 0, 0, e.timestamp)

\* alpha * prev + (1 - alpha) * v, rounded to the coordinate grid
Smooth(alpha, p, v) == RoundDiv(alpha * p + (Tenth - alpha) * v, Tenth)

ShouldSmoothAnyConfidence(pgv, c, cfg) == pgv

\* line 80: smoothing is applied
ShouldSmooth(pgv, c, cfg) == pgv /\ c >= cfg.min_confidence_threshold

\* line 87: the point becomes the anchor
AcceptAlways(c, cfg) == TRUE

ShouldAccept(c, cfg) == c >= cfg.min_confidence_threshold

\* GazePoint calculate_gaze_direction(EyeDetectionResult eye_data):
\* the returned point and the new value of the two statics
calculate_gaze_direction(e, pg, pgv, cfg) ==
    IF ~e.valid
    THEN [gaze_point |-> InvalidGaze(e), prev_gaze |-> pg, prev_gaze_valid |-> pgv]
    ELSE LET raw == RawGaze(e, cfg)
             gp == IF ShouldSmooth(pgv, raw.confidence, cfg)
                   THEN [raw EXCEPT !.x = Smooth(cfg.smoothing_factor, pg.x, raw.x),
                                    !.y = Smooth(cfg.smoothing_factor, pg.y, raw.y)]
                   ELSE raw
         IN IF ShouldAccept(gp.confidence, cfg)
            THEN [gaze_point |-> gp, prev_gaze |-> gp, prev_gaze_valid |-> TRUE]
            ELSE [gaze_point |-> gp, prev_gaze |-> pg, prev_gaze_valid |-> pgv]

----------------------------------------------------------------------------
\* Eye detector output: detect_eyes_in_frame (src/src/eye_detection.cpp)

\* What the cascade and the pupil search find in a frame.  Both eye boxes are
\* EyeBoxSize wide and high, the pupils are displaced by (dx, dy) from the
\* box centres; method is the pupil search that succeeded.
Frame(found, method, dx, dy) == [eyes_found |-> found, method |-> method, dx |-> dx, dy |-> dy]

EyeBoxSize == 1600

LeftEyeX == 0

RightEyeX == 2000

EyeY == 0

EyeConfidence == 6400

\* 0.7f Hough circle, 0.6f contour, 0.3f eye-centre fallback
PupilConfidence(method) ==
    CASE method = "hough" -> 5600
      [] method = "contour" -> 4800
      [] OTHER -> 2400

\* the fallback puts the pupil on the box centre
PupilOffset(method, d) == IF method \in {"hough", "contour"} THEN d ELSE 0

\* the fields of a result that detect_eyes_in_frame leaves unset when fewer
\* than two eyes are found are never read by the estimator; they are zero here
detect_eyes_in_frame(frame, t) ==
    IF ~frame.eyes_found
    THEN [left_eye |-> EyeRegion(0, 0, 0, 0, 0), right_eye |-> EyeRegion(0, 0, 0, 0, 0),
          left_pupil |-> PupilData(0, 0, 0, 0), right_pupil |-> PupilData(0, 0, 0, 0),
          valid |-> FALSE, timestamp |-> t]
    ELSE LET px == EyeBoxSize \div 2 + PupilOffset(frame.method, frame.dx)
             py == EyeBoxSize \div 2 + PupilOffset(frame.method, frame.dy)
             c  == PupilConfidence(frame.method)
         IN [left_eye |-> EyeRegion(LeftEyeX, EyeY, EyeBoxSize, EyeBoxSize, EyeConfidence),
             right_eye |-> EyeRegion(RightEyeX, EyeY, EyeBoxSize, EyeBoxSize, EyeConfidence),
             left_pupil |-> PupilData(LeftEyeX + px, EyeY + py, 8, c),
             right_pupil |-> PupilData(RightEyeX + px, EyeY + py, 8, c),
             valid |-> TRUE, timestamp |-> t]

\* the empty cv::Mat of a failed camera.read
NoFrame == Frame(FALSE, "none", 0, 0)

\* frames the camera delivers
Frames ==
    { Frame(FALSE, "none", 0, 0),
      Frame(TRUE, "hough", 10, 0),
      Frame(TRUE, "hough", 700, 0),
      Frame(TRUE, "hough", -700, -700) }

\* detections a caller of the estimator may pass: the detector's results and
\* results whose confidence fields are outside [0,1] (1.5 in both eye boxes)
WithEyeConfidence(e, c) ==
    [e EXCEPT !.left_eye.confidence = c, !.right_eye.confidence = c]

CallerDetections(t) ==
    { detect_eyes_in_frame(Frame(FALSE, "none", 0, 0), t),
      detect_eyes_in_frame(Frame(TRUE, "hough", 0, 50), t),
      WithEyeConfidence(detect_eyes_in_frame(Frame(TRUE, "hough", 700, 0), t), 12000) }

\* values of gaze_smoothing_factor a configuration file may carry, in tenths
SmoothingFactors == {0, 3, 10}

CameraIds == {0}

----------------------------------------------------------------------------
\* State machine

\* values of the analysis variables before any call
NoEvents == [op |-> "none"]

NotCalled == [called |-> FALSE, indices |-> <<>>, at |-> 0]

NoHeatmapCall == [gaze_points |-> <<>>, width |-> 0, height |-> 0]

NoHeatmap == [op |-> "none"]

\* the estimator's statics and the session as the process starts
InitSession ==
    /\ gaze_config = DefaultGazeConfig
    /\ prev_gaze = ZeroGaze
    /\ prev_gaze_valid = FALSE
    /\ realtime_state = [is_initialized |-> FALSE, camera_open |-> FALSE,
                         recent_gaze_points |-> <<>>]
    /\ now = 0
    /\ eye_data = detect_eyes_in_frame(Frame(FALSE, "none", 0, 0), 0)
    /\ last_op = "none"
    /\ ret_point = ZeroGaze
    /\ ret_code = 0
    /\ ingested = <<>>

\* no classifier or heatmap call has been made
InitAnalysis ==
    /\ gaze_points = <<>>
    /\ event_out = NoEvents
    /\ first_saccades = NotCalled
    /\ heat_in = NoHeatmapCall
    /\ heat_out = NoHeatmap

Init == InitSession /\ InitAnalysis

\* load_gaze_direction_config: a missing file keeps the values, a file
\* sets the keys it holds (here gaze_smoothing_factor)
load_gaze_direction_config(file_found, alpha) ==
    /\ UNCHANGED analysis_vars
    /\ gaze_config' = IF file_found THEN [gaze_config EXCEPT !.smoothing_factor = alpha]
                                    ELSE gaze_config
    /\ last_op' = "load_gaze_direction_config"
    /\ ret_code' = 0
    /\ ret_point' = ZeroGaze
    /\ UNCHANGED <<prev_gaze, prev_gaze_valid, realtime_state, now, eye_data, ingested>>

\* a call of calculate_gaze_direction from outside the real-time session
\* (process_frame of the batch run, the calibration loop)
CallCalculateGazeDirection(e) ==
    /\ UNCHANGED analysis_vars
    /\ now < MaxTime
    /\ e.timestamp = now + 1
    /\ now' = now + 1
    /\ eye_data' = e
    /\ LET r == calculate_gaze_direction(e, prev_gaze, prev_gaze_valid, gaze_config)
       IN /\ ret_point' = r.gaze_point
          /\ prev_gaze' = r.prev_gaze
          /\ prev_gaze_valid' = r.prev_gaze_valid
    /\ last_op' = "calculate_gaze_direction"
    /\ ret_code' = 0
    /\ UNCHANGED <<gaze_config, realtime_state, ingested>>

----------------------------------------------------------------------------
\* Real-time session: src/src/advanced_features.cpp

\* push_back, then erase(begin()) when the size exceeds max_history_size
PushNoEvict(h, p) == Append(h, p)

PushEvictNewest(h, p) ==
    IF Len(h) + 1 > max_history_size THEN h ELSE Append(h, p)

PushFront(h, p) ==
    LET h1 == <<p>> \o h
    IN IF Len(h1) > max_history_size THEN Tail(h1) ELSE h1

PushHistory(h, p) ==
    LET h1 == Append(h, p)
    IN IF Len(h1) > max_history_size THEN Tail(h1) ELSE h1

\* std::vector<GazePoint> get_realtime_history()
get_realtime_history == realtime_state.recent_gaze_points

\* init_realtime_processing with the buffer cleared before the
\* already-initialized test
init_clears_when_active(camera_id, opened) ==
    /\ UNCHANGED analysis_vars
    /\ IF realtime_state.is_initialized
       THEN /\ realtime_state' = [realtime_state EXCEPT !.recent_gaze_points = <<>>]
            /\ ingested' = <<>>
            /\ ret_code' = 0
            /\ last_op' = "init_already"
       ELSE IF ~opened
       THEN /\ ret_code' = -1
            /\ last_op' = "init_failed"
            /\ UNCHANGED <<realtime_state, ingested>>
       ELSE /\ realtime_state' =
                  [is_initialized |-> TRUE, camera_open |-> TRUE,
                   recent_gaze_points |-> <<>>]
            /\ ingested' = <<>>
            /\ ret_code' = 0
            /\ last_op' = "init_ok"
    /\ ret_point' = ZeroGaze
    /\ UNCHANGED <<gaze_config, prev_gaze, prev_gaze_valid, now, eye_data>>

\* int init_realtime_processing(int camera_id); opened is the outcome of
\* camera.open(camera_id)
init_realtime_processing(camera_id, opened) ==
    /\ UNCHANGED analysis_vars
    /\ IF realtime_state.is_initialized
       THEN /\ ret_code' = 0
            /\ last_op' = "init_already"
            /\ UNCHANGED <<realtime_state, ingested>>
       ELSE IF ~opened
       THEN /\ ret_code' = -1
            /\ last_op' = "init_failed"
            /\ UNCHANGED <<realtime_state, ingested>>
       ELSE /\ realtime_state' =
                  [is_initialized |-> TRUE, camera_open |-> TRUE,
                   recent_gaze_points |-> <<>>]
            /\ ingested' = <<>>
            /\ ret_code' = 0
            /\ last_op' = "init_ok"
    /\ ret_point' = ZeroGaze
    /\ UNCHANGED <<gaze_config, prev_gaze, prev_gaze_valid, now, eye_data>>

process_realtime_frame_records_failure(got_frame, frame) ==
    UNCHANGED analysis_vars /\
    IF ~realtime_state.is_initialized
    THEN /\ ret_point' = ZeroGaze
         /\ last_op' = "frame_not_initialized"
         /\ ret_code' = 0
         /\ UNCHANGED <<gaze_config, prev_gaze, prev_gaze_valid, realtime_state, now,
                        eye_data, ingested>>
    ELSE IF ~got_frame
    THEN /\ ret_point' = ZeroGaze
         /\ last_op' = "frame_not_read"
         /\ ret_code' = 0
         /\ realtime_state' = [realtime_state EXCEPT !.recent_gaze_points =
                                   PushHistory(@, ZeroGaze)]
         /\ UNCHANGED <<gaze_config, prev_gaze, prev_gaze_valid, now,
                        eye_data, ingested>>
    ELSE /\ now < MaxTime
         /\ now' = now + 1
         /\ LET eye_result == detect_eyes_in_frame(frame, now + 1)
                r == calculate_gaze_direction(eye_result, prev_gaze, prev_gaze_valid,
                                              gaze_config)
            IN /\ eye_data' = eye_result
               /\ IF eye_result.valid
                  THEN /\ ret_point' = r.gaze_point
                       /\ prev_gaze' = r.prev_gaze
                       /\ prev_gaze_valid' = r.prev_gaze_valid
                       /\ realtime_state' =
                             [realtime_state EXCEPT !.recent_gaze_points =
                                 PushHistory(@, r.gaze_point)]
                       /\ ingested' = Append(ingested, r.gaze_point)
                       /\ last_op' = "frame_ok"
                  ELSE /\ ret_point' = ZeroGaze
                       /\ last_op' = "frame_invalid"
                       /\ UNCHANGED <<prev_gaze, prev_gaze_valid, realtime_state, ingested>>
         /\ ret_code' = 0
         /\ UNCHANGED gaze_config

\* GazePoint process_realtime_frame(); got_frame is the outcome of
\* camera.read(frame), frame what the detector finds in it
process_realtime_frame(got_frame, frame) ==
    UNCHANGED analysis_vars /\
    IF ~realtime_state.is_initialized
    THEN /\ ret_point' = ZeroGaze
         /\ last_op' = "frame_not_initialized"
         /\ ret_code' = 0
         /\ UNCHANGED <<gaze_config, prev_gaze, prev_gaze_valid, realtime_state, now,
                        eye_data, ingested>>
    ELSE IF ~got_frame
    THEN /\ ret_point' = ZeroGaze
         /\ last_op' = "frame_not_read"
         /\ ret_code' = 0
         /\ UNCHANGED <<gaze_config, prev_gaze, prev_gaze_valid, realtime_state, now,
                        eye_data, ingested>>
    ELSE /\ now < MaxTime
         /\ now' = now + 1
         /\ LET eye_result == detect_eyes_in_frame(frame, now + 1)
                r == calculate_gaze_direction(eye_result, prev_gaze, prev_gaze_valid,
                                              gaze_config)
            IN /\ eye_data' = eye_result
               /\ IF eye_result.valid
                  THEN /\ ret_point' = r.gaze_point
                       /\ prev_gaze' = r.prev_gaze
                       /\ prev_gaze_valid' = r.prev_gaze_valid
                       /\ realtime_state' =
                             [realtime_state EXCEPT !.recent_gaze_points =
                                 PushHistory(@, r.gaze_point)]
                       /\ ingested' = Append(ingested, r.gaze_point)
                       /\ last_op' = "frame_ok"
                  ELSE /\ ret_point' = ZeroGaze
                       /\ last_op' = "frame_invalid"
                       /\ UNCHANGED <<prev_gaze, prev_gaze_valid, realtime_state, ingested>>
         /\ ret_code' = 0
         /\ UNCHANGED gaze_config

cleanup_resets_anchor ==
    /\ UNCHANGED analysis_vars
    /\ IF realtime_state.is_initialized
       THEN /\ realtime_state' = [is_initialized |-> FALSE, camera_open |-> FALSE,
                                   recent_gaze_points |-> <<>>]
            /\ ingested' = <<>>
            /\ prev_gaze' = ZeroGaze
            /\ prev_gaze_valid' = FALSE
            /\ last_op' = "cleanup"
       ELSE /\ last_op' = "cleanup_noop"
            /\ UNCHANGED <<realtime_state, ingested, prev_gaze, prev_gaze_valid>>
    /\ ret_point' = ZeroGaze
    /\ ret_code' = 0
    /\ UNCHANGED <<gaze_config, now, eye_data>>

cleanup_keeps_buffer ==
    /\ UNCHANGED analysis_vars
    /\ IF realtime_state.is_initialized
       THEN /\ realtime_state' = [realtime_state EXCEPT !.is_initialized = FALSE,
                                                        !.camera_open = FALSE]
            /\ last_op' = "cleanup"
       ELSE /\ last_op' = "cleanup_noop"
            /\ UNCHANGED realtime_state
    /\ ret_point' = ZeroGaze
    /\ ret_code' = 0
    /\ UNCHANGED <<gaze_config, prev_gaze, prev_gaze_valid, now, eye_data, ingested>>

\* void cleanup_realtime_processing()
cleanup_realtime_processing ==
    /\ UNCHANGED analysis_vars
    /\ IF realtime_state.is_initialized
       THEN /\ realtime_state' = [is_initialized |-> FALSE, camera_open |-> FALSE,
                                   recent_gaze_points |-> <<>>]
            /\ ingested' = <<>>
            /\ last_op' = "cleanup"
       ELSE /\ last_op' = "cleanup_noop"
            /\ UNCHANGED <<realtime_state, ingested>>
    /\ ret_point' = ZeroGaze
    /\ ret_code' = 0
    /\ UNCHANGED <<gaze_config, prev_gaze, prev_gaze_valid, now, eye_data>>

----------------------------------------------------------------------------
\* Batch analysis: export_analysis_to_json_wrapper

\* the video files: no frame, one frame without eyes, one low-confidence
\* frame, one accepted frame, a low-confidence frame before an accepted one
Videos ==
    { <<>>,
      <<Frame(FALSE, "none", 0, 0)>>,
      <<Frame(TRUE, "hough", -700, -700)>>,
      <<Frame(TRUE, "hough", 700, 0)>>,
      <<Frame(TRUE, "fallback", 0, 0), Frame(TRUE, "hough", 10, 0)>> }

\* the loop of lines 338-346 over the frames i..Len(video): acc carries the
\* collected gaze_points, the two statics and the clock
RECURSIVE ExportLoop(_, _, _)
ExportLoop(video, i, acc) ==
    IF i > Len(video) THEN acc
    ELSE LET eye_result == detect_eyes_in_frame(video[i], acc.now + 1)
             r == calculate_gaze_direction(eye_result, acc.prev_gaze,
                                           acc.prev_gaze_valid, gaze_config)
         IN IF eye_result.valid
            THEN ExportLoop(video, i + 1,
                   [gaze_points |-> IF r.gaze_point.confidence > ConfScale \div 2
                                    THEN Append(acc.gaze_points, r.gaze_point)
                                    ELSE acc.gaze_points,
                    prev_gaze |-> r.prev_gaze,
                    prev_gaze_valid |-> r.prev_gaze_valid,
                    now |-> acc.now + 1])
            ELSE ExportLoop(video, i + 1, [acc EXCEPT !.now = acc.now + 1])

\* int export_analysis_to_json_wrapper(video_path, filename); opened is the
\* outcome of the format check and of cap.isOpened(), written that of fopen
export_analysis_to_json_wrapper(opened, video, written) ==
    UNCHANGED analysis_vars /\
    IF ~opened
    THEN /\ ret_code' = -1
         /\ last_op' = "export_not_opened"
         /\ ret_point' = ZeroGaze
         /\ UNCHANGED <<gaze_config, prev_gaze, prev_gaze_valid, realtime_state, now,
                        eye_data, ingested>>
    ELSE /\ now + Len(video) <= MaxTime
         /\ LET acc == ExportLoop(video, 1,
                          [gaze_points |-> <<>>, prev_gaze |-> prev_gaze,
                           prev_gaze_valid |-> prev_gaze_valid, now |-> now])
            IN /\ prev_gaze' = acc.prev_gaze
               /\ prev_gaze_valid' = acc.prev_gaze_valid
               /\ now' = acc.now
               /\ IF acc.gaze_points = <<>>
                  THEN ret_code' = -1 /\ last_op' = "export_no_points"
                  ELSE IF written
                  THEN ret_code' = 0 /\ last_op' = "export_ok"
                  ELSE ret_code' = -1 /\ last_op' = "export_not_written"
         /\ ret_point' = ZeroGaze
         /\ UNCHANGED <<gaze_config, realtime_state, eye_data, ingested>>

----------------------------------------------------------------------------

Next ==
    \/ \E file_found \in BOOLEAN, alpha \in SmoothingFactors :
          load_gaze_direction_config(file_found, alpha)
    \/ \E e \in CallerDetections(now + 1) : CallCalculateGazeDirection(e)
    \/ \E camera_id \in CameraIds, opened \in BOOLEAN :
          init_realtime_processing(camera_id, opened)
    \/ \E got_frame \in BOOLEAN :
          \E frame \in IF got_frame THEN Frames ELSE {NoFrame} :
             process_realtime_frame(got_frame, frame)
    \/ cleanup_realtime_processing
    \/ \E opened \in BOOLEAN :
          \E video \in IF opened THEN Videos ELSE {<<>>} :
             \E written \in IF opened THEN BOOLEAN ELSE {FALSE} :
                export_analysis_to_json_wrapper(opened, video, written)

Spec == Init /\ [][Next]_vars

----------------------------------------------------------------------------
\* Properties

EstimatorOps == {"calculate_gaze_direction", "frame_ok"}

ExportRuns == {"export_no_points", "export_ok", "export_not_written"}

InUnit(v, unit) == 0 <= v /\ v <= unit

LastN(s, n) == SubSeq(s, Len(s) - n + 1, Len(s))

\* C1: every GazePoint the estimator returns, smoothed or not, and every
\* point kept in the anchor or the rolling buffer has x and y in [0,1].
C1_CoordinatesInUnitRange ==
    /\ InUnit(ret_point.x, Scale) /\ InUnit(ret_point.y, Scale)
    /\ InUnit(prev_gaze.x, Scale) /\ InUnit(prev_gaze.y, Scale)
    /\ \A i \in 1..Len(get_realtime_history) :
          /\ InUnit(get_realtime_history[i].x, Scale)
          /\ InUnit(get_realtime_history[i].y, Scale)

\* C1 witness: the estimator returned a point whose raw estimate was clamped
\* to 1 and which was then smoothed against the anchor.
C1_Witness ==
    /\ last_op \in EstimatorOps
    /\ eye_data.valid
    /\ RawGaze(eye_data, gaze_config).x = Scale
    /\ ret_point.x # RawGaze(eye_data, gaze_config).x

\* C2: every GazePoint the estimator returns has confidence in [0,1],
\* whatever confidence values the detection carries.
C2_ConfidenceInUnitRange == InUnit(ret_point.confidence, ConfScale)

\* C3: when the anchor holds an accepted point and the estimator processes a
\* detection whose final confidence is below min_confidence_threshold, the
\* anchor and prev_gaze_valid keep their values and the returned point is
\* the unsmoothed estimate.
C3_LowConfidenceKeepsAnchor ==
    [][(/\ last_op' \in EstimatorOps
        /\ eye_data'.valid
        /\ prev_gaze_valid
        /\ ret_point'.confidence < gaze_config.min_confidence_threshold)
       => (/\ prev_gaze' = prev_gaze
           /\ prev_gaze_valid' = prev_gaze_valid
           /\ ret_point' = RawGaze(eye_data', gaze_config))]_vars

\* C3 witness: a valid detection was estimated below the threshold while the
\* anchor held an earlier accepted point at another position.
C3_Witness ==
    /\ last_op \in EstimatorOps
    /\ eye_data.valid
    /\ ret_point.confidence < gaze_config.min_confidence_threshold
    /\ prev_gaze_valid
    /\ prev_gaze.timestamp < ret_point.timestamp
    /\ <<prev_gaze.x, prev_gaze.y>> # <<ret_point.x, ret_point.y>>

\* C4: for a detection with valid = false the estimator returns the sentinel
\* (0, 0, confidence 0, the input's timestamp) and leaves prev_gaze and
\* prev_gaze_valid unchanged.
C4_InvalidDetectionSentinel ==
    [][(last_op' = "calculate_gaze_direction" /\ ~eye_data'.valid)
       => (/\ ret_point' = GazePoint(0, 0, 0, eye_data'.timestamp)
           /\ prev_gaze' = prev_gaze
           /\ prev_gaze_valid' = prev_gaze_valid
           /\ ret_code' = 0)]_vars

\* C4 witness: the estimator returned for an invalid detection with a
\* non-zero timestamp while an anchor was set.
C4_Witness ==
    /\ last_op = "calculate_gaze_direction"
    /\ ~eye_data.valid
    /\ eye_data.timestamp > 0
    /\ prev_gaze_valid

\* C5: after stop() followed by a successful start() the smoothing anchor is
\* absent, as in a freshly constructed session.
C5_RestartClearsAnchor ==
    [][(last_op = "cleanup" /\ last_op' = "init_ok") => ~prev_gaze_valid']_vars

\* C6 (as stated): every start() that reports success leaves the rolling
\* buffer empty, also on a session that is already active.
C6_StartLeavesBufferEmpty ==
    (last_op \in {"init_ok", "init_already"} /\ ret_code = 0)
       => get_realtime_history = <<>>

\* C6 (amended): a start() that opens the camera of an inactive session
\* leaves the rolling buffer empty; a start() on an active session returns 0
\* and leaves the session and its buffered points unchanged.
C6_StartClearsOnlyInactive ==
    [][/\ (last_op' = "init_ok"
           => ~realtime_state.is_initialized /\ ret_code' = 0
              /\ realtime_state'.is_initialized
              /\ realtime_state'.recent_gaze_points = <<>>)
       /\ (last_op' = "init_already"
           => realtime_state.is_initialized /\ ret_code' = 0
              /\ realtime_state' = realtime_state)]_vars

\* C6 witness: start() returned 0 on an active session that holds points.
C6_Witness ==
    /\ last_op = "init_already"
    /\ ret_code = 0
    /\ get_realtime_history # <<>>

\* C7: whenever an operation has returned, the rolling buffer holds at most
\* max_history_size points.
C7_BufferWithinCapacity == Len(get_realtime_history) <= max_history_size

\* C7 witness: more points were appended than the capacity and the buffer
\* is full.
C7_Witness ==
    /\ Len(ingested) > max_history_size
    /\ Len(get_realtime_history) = max_history_size

\* C8: the snapshot is exactly the last min(k, capacity) of the k points
\* appended since the last reset, in their original order.
C8_SnapshotIsNewestSuffix ==
    get_realtime_history = LastN(ingested, Min(Len(ingested), max_history_size))

\* C8 witness: two more points than the capacity were ingested, so the
\* oldest entry was evicted twice.
C8_Witness ==
    /\ realtime_state.is_initialized
    /\ Len(ingested) = max_history_size + 2
    /\ Len(get_realtime_history) = max_history_size

\* C9 (as stated): every ingest that obtains a frame appends exactly one
\* entry, the returned GazePoint, as the newest element of the buffer.
C9_EveryFrameAppends ==
    [][last_op' \in {"frame_ok", "frame_invalid"}
       => (/\ Len(realtime_state'.recent_gaze_points) > 0
           /\ realtime_state'.recent_gaze_points[Len(realtime_state'.recent_gaze_points)]
                 = ret_point'
           /\ ingested' = Append(ingested, ret_point'))]_vars

\* C9 (amended): an ingest that obtains a frame with a valid detection runs
\* the estimator on it and appends exactly the returned GazePoint as the
\* newest element, the older entries staying as they were apart from the
\* evicted oldest one; an ingest whose detection is invalid does not call the
\* estimator, appends nothing and returns the all-zero GazePoint.
C9_ValidFrameAppends ==
    [][/\ (last_op' = "frame_ok"
           => LET h  == realtime_state.recent_gaze_points
                  h2 == realtime_state'.recent_gaze_points
              IN /\ eye_data'.valid
                 /\ ret_point' = calculate_gaze_direction(eye_data', prev_gaze,
                                    prev_gaze_valid, gaze_config).gaze_point
                 /\ Len(h2) > 0
                 /\ h2[Len(h2)] = ret_point'
                 /\ SubSeq(h2, 1, Len(h2) - 1)
                       = IF Len(h) < max_history_size THEN h ELSE Tail(h))
       /\ (last_op' = "frame_invalid"
           => /\ ~eye_data'.valid
              /\ ret_point' = ZeroGaze
              /\ realtime_state' = realtime_state
              /\ prev_gaze' = prev_gaze
              /\ prev_gaze_valid' = prev_gaze_valid)]_vars

\* C9 witness: a valid frame was ingested into a full buffer and its point
\* is the newest entry.
C9_Witness ==
    /\ last_op = "frame_ok"
    /\ Len(ingested) > max_history_size
    /\ get_realtime_history[Len(get_realtime_history)] = ret_point

\* the point the session's next ingest would return for frame f
NextIngest(f, pg, pgv, t) ==
    calculate_gaze_direction(detect_eyes_in_frame(f, t), pg, pgv, gaze_config).gaze_point

\* C10: estimator calls made for a batch analysis or a calibration while a
\* streaming session is active do not change the point the session's next
\* ingest returns for the same detection.
C10_SessionOwnsAnchor ==
    [][(/\ realtime_state.is_initialized
        /\ last_op' \in {"calculate_gaze_direction"} \cup ExportRuns)
       => \A f \in Frames :
             NextIngest(f, prev_gaze', prev_gaze_valid', now' + 1)
               = NextIngest(f, prev_gaze, prev_gaze_valid, now' + 1)]_vars

----------------------------------------------------------------------------
\* Event classifier (advanced_features.cpp)
\*
\* The classifier takes a sequence of GazePoints.  Its timestamps are
\* seconds in the code; here they are whole milliseconds, so that
\* (t2 - t1) * 1000.0f is t2 - t1.

Milli == 1000

saccade_params ==
    [velocity_threshold |-> 300, acceleration_threshold |-> 500,
     min_duration_ms |-> 20, max_duration_ms |-> 200]

fixation_params ==
    [position_threshold |-> 25, min_duration_ms |-> 100,
     stability_threshold |-> 15]

\* floor of the square root of n, by bisection on lo..hi
RECURSIVE SqrtBetween(_, _, _)
SqrtBetween(n, lo, hi) ==
    IF lo >= hi THEN lo
    ELSE LET mid == (lo + hi + 1) \div 2
         IN  IF mid * mid <= n THEN SqrtBetween(n, mid, hi)
             ELSE SqrtBetween(n, lo, mid - 1)

\* sqrt(pow(a.x - b.x, 2) + pow(a.y - b.y, 2)), in 1/Scale units
Distance(a, b) ==
    LET dx == a.x - b.x
        dy == a.y - b.y
    IN  SqrtBetween(dx * dx + dy * dy, 0, 2 * Scale)

\* distance <= position_threshold / 1000.0f, compared on the squares
WithinPositionThreshold(a, b) ==
    LET dx == a.x - b.x
        dy == a.y - b.y
        limit == (fixation_params.position_threshold * Scale) \div 1000
    IN  dx * dx + dy * dy <= limit * limit

RunAnchorPrevious(pts, start_idx, i) == pts[i - 1]

\* the point every candidate of a run is compared with: fixation.x and
\* fixation.y hold the run's first point while the run is scanned
RunAnchor(pts, start_idx, i) == pts[start_idx]

\* end_idx of the run that starts at start_idx: the scan from i stops at
\* the first point outside the threshold
RECURSIVE RunEnd(_, _, _)
RunEnd(pts, start_idx, i) ==
    IF i <= Len(pts) /\ WithinPositionThreshold(pts[i], RunAnchor(pts, start_idx, i))
    THEN RunEnd(pts, start_idx, i + 1)
    ELSE i - 1

RECURSIVE SumSeq(_)
SumSeq(q) == IF q = <<>> THEN 0 ELSE Head(q) + SumSeq(Tail(q))

RunDurationFromFirst(pts, start_idx, end_idx) ==
    pts[end_idx].timestamp - pts[1].timestamp

\* (gaze_points[end_idx].timestamp - gaze_points[start_idx].timestamp) * 1000.0f
RunDuration(pts, start_idx, end_idx) ==
    pts[end_idx].timestamp - pts[start_idx].timestamp

\* the AttentionRegion of the run pts[start_idx..end_idx]; intensity in 1/100
FixationOf(pts, start_idx, end_idx) ==
    LET run == SubSeq(pts, start_idx, end_idx)
        visit_count == Len(run)
        cx == RoundDiv(SumSeq([i \in 1..visit_count |-> run[i].x]), visit_count)
        cy == RoundDiv(SumSeq([i \in 1..visit_count |-> run[i].y]), visit_count)
        duration == RunDuration(pts, start_idx, end_idx)
        sum_dist == SumSeq([i \in 1..visit_count |->
                              Distance(run[i], [x |-> cx, y |-> cy])])
        per_milli == Scale \div 1000
    IN  [x |-> cx, y |-> cy, duration |-> duration,
         intensity |-> RoundDiv(duration * 100 * per_milli * visit_count,
                                per_milli * visit_count + sum_dist),
         visit_count |-> visit_count]

MeetsMinDurationStrict(duration, min_duration_ms) == duration > min_duration_ms

\* fixation.duration >= fixation_params.min_duration_ms
MeetsMinDuration(duration, min_duration_ms) == duration >= min_duration_ms

RunOfAnyLength(start_idx, end_idx) == TRUE

\* end_idx > start_idx: the run has two points or more
RunHasTwoPoints(start_idx, end_idx) == end_idx > start_idx

NextStartSkips(end_idx) == end_idx + 2

\* start_idx = end_idx + 1
NextStart(end_idx) == end_idx + 1

\* the while loop of detect_fixations from start_idx on, in a build whose
\* fixation_params.min_duration_ms is min_duration_ms: the runs it scans
\* (0-based index ranges) and the regions it pushes
RECURSIVE FixationLoop(_, _, _)
FixationLoop(pts, start_idx, min_duration_ms) ==
    IF start_idx > Len(pts) THEN [runs |-> <<>>, fixations |-> <<>>]
    ELSE LET end_idx == RunEnd(pts, start_idx, start_idx + 1)
             fixation == FixationOf(pts, start_idx, end_idx)
             emitted == /\ RunHasTwoPoints(start_idx, end_idx)
                        /\ MeetsMinDuration(fixation.duration, min_duration_ms)
             rest == FixationLoop(pts, NextStart(end_idx), min_duration_ms)
         IN  [runs |-> <<[start_idx |-> start_idx - 1, end_idx |-> end_idx - 1]>>
                         \o rest.runs,
              fixations |-> (IF emitted THEN <<fixation>> ELSE <<>>)
                              \o rest.fixations]

detect_fixations(pts) == FixationLoop(pts, 1, fixation_params.min_duration_ms)

\* sqrt(dx*dx + dy*dy) / dt in 1/Milli units per second, dt in milliseconds
Velocity(a, b, dt) == (Distance(a, b) * ((Milli * Milli) \div Scale)) \div dt

\* fabs(velocity2 - velocity1) / ((dt1 + dt2) / 2.0), in 1/Milli units
Acceleration(velocity1, velocity2, dt1, dt2) ==
    (Abs(velocity2 - velocity1) * 2 * Milli) \div (dt1 + dt2)

IsSaccadeNeedsBoth(velocity1, velocity2, acceleration) ==
    /\ \/ velocity1 > saccade_params.velocity_threshold * Milli
       \/ velocity2 > saccade_params.velocity_threshold * Milli
    /\ acceleration > saccade_params.acceleration_threshold * Milli

\* the test that flags index i
IsSaccade(velocity1, velocity2, acceleration) ==
    \/ velocity1 > saccade_params.velocity_threshold * Milli
    \/ velocity2 > saccade_params.velocity_threshold * Milli
    \/ acceleration > saccade_params.acceleration_threshold * Milli

\* one iteration of the loop of detect_saccades, at the 1-based index i
SaccadeAt(pts, i) ==
    LET prev == pts[i - 1]
        curr == pts[i]
        next == pts[i + 1]
        dt1 == curr.timestamp - prev.timestamp
        dt2 == next.timestamp - curr.timestamp
    IN  IF dt1 <= 0 \/ dt2 <= 0 THEN FALSE
        ELSE LET velocity1 == Velocity(curr, prev, dt1)
                 velocity2 == Velocity(next, curr, dt2)
             IN  IsSaccade(velocity1, velocity2,
                           Acceleration(velocity1, velocity2, dt1, dt2))

\* the loop of detect_saccades from i on; the indices pushed are 0-based
RECURSIVE SaccadeLoop(_, _)
SaccadeLoop(pts, i) ==
    IF i > Len(pts) - 1 THEN <<>>
    ELSE (IF SaccadeAt(pts, i) THEN <<i - 1>> ELSE <<>>) \o SaccadeLoop(pts, i + 1)

detect_saccades(pts) == IF Len(pts) < 3 THEN <<>> ELSE SaccadeLoop(pts, 2)

TotalDurationFromZero(pts) ==
    IF Len(pts) > 1 THEN pts[Len(pts)].timestamp ELSE 0

\* (back().timestamp - front().timestamp) * 1000.0f when size() > 1
TotalDuration(pts) ==
    IF Len(pts) > 1 THEN pts[Len(pts)].timestamp - pts[1].timestamp ELSE 0

\* durations in milliseconds, the average rounded to a whole millisecond
analyze_attention_patterns(pts) ==
    IF pts = <<>>
    THEN [regions |-> <<>>, total_duration |-> 0,
          average_fixation_duration |-> 0, saccade_count |-> 0]
    ELSE LET regions == detect_fixations(pts).fixations
             total_fixation_duration ==
                 SumSeq([i \in 1..Len(regions) |-> regions[i].duration])
         IN  [regions |-> regions,
              total_duration |-> TotalDuration(pts),
              average_fixation_duration |->
                  IF regions # <<>>
                  THEN RoundDiv(total_fixation_duration, Len(regions))
                  ELSE 0,
              saccade_count |-> Len(detect_saccades(pts))]

----------------------------------------------------------------------------
\* The classifier called on bounded input sequences

MaxPoints == 3

\* screen positions: three 0.02 apart on a line, one far away
EventPositions == {<<5000, 5000>>, <<5200, 5000>>, <<5400, 5000>>, <<9000, 9000>>}

\* milliseconds between consecutive points, and the first timestamp
TimeDeltas == {0, 1, 99, 100}

FirstStamps == {0, 1}

\* the GazePoints at positions ps, dt[i] after the previous one, all of
\* confidence c
GazeSequence(ps, dt, c) ==
    [i \in 1..Len(ps) |->
        GazePoint(ps[i][1], ps[i][2], c, SumSeq(SubSeq(dt, 1, i)))]

\* longer sequences: two fixations with a jump between them, the same with
\* the second one a millisecond short, a scan that jumps at every point, and
\* one with a repeated timestamp in the middle
LongSequences ==
    LET A == <<5000, 5000>>
        B == <<9000, 9000>>
    IN  {GazeSequence(<<A, A, B, B>>, <<0, 100, 1, 100>>, ConfScale),
         GazeSequence(<<A, A, B, B>>, <<1, 100, 1, 99>>, ConfScale),
         GazeSequence(<<A, B, A, B>>, <<0, 1, 1, 1>>, ConfScale),
         GazeSequence(<<A, B, A, B, A>>, <<0, 1, 0, 1, 1>>, ConfScale)}

\* the input is any sequence of at most MaxPoints points or a longer one
InitEvents ==
    /\ InitSession
    /\ \/ \E n \in 0..MaxPoints :
            \E ps \in [1..n -> EventPositions], dt \in [1..n -> TimeDeltas \cup FirstStamps],
               c \in {0, ConfScale} :
               /\ n > 0 => dt[1] \in FirstStamps
               /\ \A i \in 2..n : dt[i] \in TimeDeltas
               /\ gaze_points = GazeSequence(ps, dt, c)
       \/ gaze_points \in LongSequences
    /\ event_out = NoEvents
    /\ first_saccades = NotCalled
    /\ heat_in = NoHeatmapCall
    /\ heat_out = NoHeatmap

DetectFixations ==
    /\ event_out' = [op |-> "detect_fixations",
                     runs |-> detect_fixations(gaze_points).runs,
                     fixations |-> detect_fixations(gaze_points).fixations]
    /\ UNCHANGED <<session_vars, gaze_points, first_saccades, heat_in, heat_out>>

\* detect_fixations in a build with fixation_params.min_duration_ms = 0
DetectFixationsNoMinimum ==
    /\ event_out' = [op |-> "detect_fixations_no_minimum",
                     runs |-> FixationLoop(gaze_points, 1, 0).runs,
                     fixations |-> FixationLoop(gaze_points, 1, 0).fixations]
    /\ UNCHANGED <<session_vars, gaze_points, first_saccades, heat_in, heat_out>>

DetectSaccadesKeepsIndices ==
    /\ event_out' = [op |-> "detect_saccades",
                     indices |-> (IF event_out.op = "detect_saccades"
                                  THEN event_out.indices ELSE <<>>)
                                   \o detect_saccades(gaze_points),
                     rerun |-> first_saccades.called /\ now > first_saccades.at]
    /\ first_saccades' = IF first_saccades.called THEN first_saccades
                         ELSE [called |-> TRUE,
                               indices |-> detect_saccades(gaze_points),
                               at |-> now]
    /\ UNCHANGED <<session_vars, gaze_points, heat_in, heat_out>>

\* first_saccades keeps the result of the first call and the clock at it;
\* rerun says that the clock has moved since the first call
DetectSaccades ==
    /\ event_out' = [op |-> "detect_saccades",
                     indices |-> detect_saccades(gaze_points),
                     rerun |-> first_saccades.called /\ now > first_saccades.at]
    /\ first_saccades' = IF first_saccades.called THEN first_saccades
                         ELSE [called |-> TRUE,
                               indices |-> detect_saccades(gaze_points),
                               at |-> now]
    /\ UNCHANGED <<session_vars, gaze_points, heat_in, heat_out>>

AnalyzeAttention ==
    /\ event_out' = [op |-> "analyze_attention_patterns",
                     analysis |-> analyze_attention_patterns(gaze_points)]
    /\ UNCHANGED <<session_vars, gaze_points, first_saccades, heat_in, heat_out>>

NextEvents ==
    \/ DetectFixations
    \/ DetectFixationsNoMinimum
    \/ DetectSaccades
    \/ AnalyzeAttention

SpecEvents == InitEvents /\ [][NextEvents]_vars

\* The classifier called again and again on one sequence while estimator
\* calls and a streaming session run

RerunInputs ==
    {GazeSequence(<<<<5000, 5000>>, <<9000, 9000>>, <<5000, 5000>>, <<9000, 9000>>>>,
                  <<0, 1, 1, 1>>, ConfScale),
     GazeSequence(<<<<5000, 5000>>, <<5200, 5000>>, <<5400, 5000>>>>,
                  <<0, 100, 100>>, ConfScale)}

InitRerun ==
    /\ InitSession
    /\ gaze_points \in RerunInputs
    /\ event_out = NoEvents
    /\ first_saccades = NotCalled
    /\ heat_in = NoHeatmapCall
    /\ heat_out = NoHeatmap

NextRerun ==
    \/ DetectSaccades
    \/ DetectFixations
    \/ \E e \in CallerDetections(now + 1) : CallCalculateGazeDirection(e)
    \/ \E camera_id \in CameraIds, opened \in BOOLEAN :
          init_realtime_processing(camera_id, opened)
    \/ \E got_frame \in BOOLEAN : \E frame \in IF got_frame THEN Frames ELSE {NoFrame} :
          process_realtime_frame(got_frame, frame)
    \/ cleanup_realtime_processing

SpecRerun == InitRerun /\ [][NextRerun]_vars

----------------------------------------------------------------------------
\* Claims about the event classifier

\* the timestamp span of pts[s..e], 0-based
SpanOf(pts, r) == pts[r.end_idx + 1].timestamp - pts[r.start_idx + 1].timestamp

RunLength(r) == r.end_idx - r.start_idx + 1

\* C11: the runs scanned by detect_fixations are contiguous index ranges in
\* increasing order: the first starts at 0, each next one starts right after
\* the previous end, and the last ends at n-1.
C11_RunsPartitionInput ==
    event_out.op = "detect_fixations"
    => LET r == event_out.runs
           n == Len(gaze_points)
       IN  /\ n = 0 => r = <<>>
           /\ n > 0 => /\ r # <<>>
                       /\ r[1].start_idx = 0
                       /\ r[Len(r)].end_idx = n - 1
           /\ \A k \in 1..Len(r) : r[k].start_idx <= r[k].end_idx
           /\ \A k \in 1..(Len(r) - 1) : r[k + 1].start_idx = r[k].end_idx + 1

\* C11 witness: an input split into several runs, one of them of two points
\* or more.
C11_Witness ==
    /\ event_out.op = "detect_fixations"
    /\ Len(event_out.runs) >= 2
    /\ \E k \in 1..Len(event_out.runs) : RunLength(event_out.runs[k]) >= 2

\* the runs of two points or more that last at least min_duration_ms
LongRuns(pts, runs) ==
    SelectSeq(runs, LAMBDA r : /\ RunLength(r) >= 2
                               /\ SpanOf(pts, r) >= fixation_params.min_duration_ms)

\* C12: every region detect_fixations returns lasts at least min_duration_ms,
\* and the boundary is inclusive: the regions are those of the runs of two
\* points or more whose duration is min_duration_ms or more, so a run of
\* exactly min_duration_ms is emitted and one of a millisecond less is not.
C12_MinDurationInclusive ==
    event_out.op = "detect_fixations"
    => LET f == event_out.fixations
           long == LongRuns(gaze_points, event_out.runs)
       IN  /\ \A k \in 1..Len(f) : f[k].duration >= fixation_params.min_duration_ms
           /\ Len(f) = Len(long)
           /\ \A k \in 1..Len(f) : f[k].duration = SpanOf(gaze_points, long[k])

\* C12 witness: a run of exactly min_duration_ms was emitted next to a run
\* one millisecond shorter that was not.
C12_Witness ==
    /\ event_out.op = "detect_fixations"
    /\ \E k \in 1..Len(event_out.fixations) :
          event_out.fixations[k].duration = fixation_params.min_duration_ms
    /\ \E k \in 1..Len(event_out.runs) :
          /\ RunLength(event_out.runs[k]) >= 2
          /\ SpanOf(gaze_points, event_out.runs[k])
               = fixation_params.min_duration_ms - 1

\* C13: a run started at s is extended exactly while each next point lies
\* within position_threshold/1000 of point s, the run's first point; the
\* region of an emitted run has visit_count equal to the run's length and
\* its centroid is the mean of the run's coordinates.  Two points at
\* (0.5,0.5) followed by (0.9,0.9) give one region at (0.5,0.5) with
\* visit_count 2.
C13_RunAnchoredAtFirstPoint ==
    event_out.op = "detect_fixations"
    => LET pts == gaze_points
           r == event_out.runs
           f == event_out.fixations
           long == LongRuns(pts, r)
           SumX(run) == SumSeq([i \in 1..RunLength(run) |-> pts[run.start_idx + i].x])
           SumY(run) == SumSeq([i \in 1..RunLength(run) |-> pts[run.start_idx + i].y])
       IN  /\ \A k \in 1..Len(r) :
                /\ \A i \in (r[k].start_idx + 2)..(r[k].end_idx + 1) :
                      WithinPositionThreshold(pts[i], pts[r[k].start_idx + 1])
                /\ r[k].end_idx + 1 < Len(pts)
                   => ~WithinPositionThreshold(pts[r[k].end_idx + 2],
                                               pts[r[k].start_idx + 1])
           /\ Len(f) = Len(long)
           /\ \A k \in 1..Len(f) :
                /\ f[k].visit_count = RunLength(long[k])
                /\ 2 * Abs(f[k].x * f[k].visit_count - SumX(long[k])) <= f[k].visit_count
                /\ 2 * Abs(f[k].y * f[k].visit_count - SumY(long[k])) <= f[k].visit_count
           /\ (/\ Len(pts) = 3
               /\ \A i \in 1..2 : pts[i].x = Scale \div 2 /\ pts[i].y = Scale \div 2
               /\ pts[3].x = (9 * Scale) \div 10 /\ pts[3].y = (9 * Scale) \div 10
               /\ pts[2].timestamp - pts[1].timestamp >= fixation_params.min_duration_ms)
              => /\ Len(f) = 1
                 /\ f[1].x = Scale \div 2 /\ f[1].y = Scale \div 2
                 /\ f[1].visit_count = 2

\* C13 witness: three points 0.02 apart on a line; the third is within the
\* threshold of the second but not of the first, so the run ends at the
\* second and its region is centred between the first two.
C13_Witness ==
    /\ event_out.op = "detect_fixations"
    /\ Len(gaze_points) = 3
    /\ WithinPositionThreshold(gaze_points[3], gaze_points[2])
    /\ ~WithinPositionThreshold(gaze_points[3], gaze_points[1])
    /\ event_out.runs = <<[start_idx |-> 0, end_idx |-> 1],
                          [start_idx |-> 2, end_idx |-> 2]>>
    /\ Len(event_out.fixations) = 1
    /\ event_out.fixations[1].visit_count = 2
    /\ event_out.fixations[1].x = 5100

\* the elapsed times around the 0-based interior index i
ElapsedBefore(pts, i) == pts[i + 1].timestamp - pts[i].timestamp

ElapsedAfter(pts, i) == pts[i + 2].timestamp - pts[i + 1].timestamp

\* C14: detect_saccades returns, in increasing order, exactly the interior
\* indices whose two elapsed times are positive and whose incoming velocity,
\* outgoing velocity or acceleration exceeds its threshold; fewer than three
\* points give an empty result.
C14_SaccadeIndicesExact ==
    event_out.op = "detect_saccades"
    => LET pts == gaze_points
           idx == event_out.indices
           Fast(i) ==
               LET dt1 == ElapsedBefore(pts, i)
                   dt2 == ElapsedAfter(pts, i)
                   v1 == Velocity(pts[i + 1], pts[i], dt1)
                   v2 == Velocity(pts[i + 2], pts[i + 1], dt2)
               IN  \/ v1 > saccade_params.velocity_threshold * Milli
                   \/ v2 > saccade_params.velocity_threshold * Milli
                   \/ Acceleration(v1, v2, dt1, dt2)
                        > saccade_params.acceleration_threshold * Milli
           flagged == {i \in 1..(Len(pts) - 2) :
                          /\ ElapsedBefore(pts, i) > 0
                          /\ ElapsedAfter(pts, i) > 0
                          /\ Fast(i)}
       IN  /\ \A k \in 1..(Len(idx) - 1) : idx[k] < idx[k + 1]
           /\ {idx[k] : k \in 1..Len(idx)} = flagged
           /\ Len(pts) < 3 => idx = <<>>

\* C14 witness: an index was flagged in a sequence in which a triple with a
\* repeated timestamp was skipped.
C14_Witness ==
    /\ event_out.op = "detect_saccades"
    /\ event_out.indices # <<>>
    /\ \E i \in 1..(Len(gaze_points) - 2) :
          /\ ElapsedBefore(gaze_points, i) <= 0 \/ ElapsedAfter(gaze_points, i) <= 0
          /\ \A k \in 1..Len(event_out.indices) : event_out.indices[k] # i

\* C16: total_duration is the span from the first timestamp to the last when
\* there are two points or more and 0 otherwise, average_fixation_duration
\* is 0 when no region was emitted, and the analysis of an empty input is
\* all zero and empty.
C16_SummaryWellDefined ==
    event_out.op = "analyze_attention_patterns"
    => LET a == event_out.analysis
           n == Len(gaze_points)
       IN  /\ n >= 2 => a.total_duration
                          = gaze_points[n].timestamp - gaze_points[1].timestamp
           /\ n < 2 => a.total_duration = 0
           /\ a.regions = <<>> => a.average_fixation_duration = 0
           /\ n = 0 => /\ a.regions = <<>>
                       /\ a.saccade_count = 0
                       /\ a.average_fixation_duration = 0

\* C16 witness: an input that starts after time 0 and spans some time but
\* holds no fixation.
C16_Witness ==
    /\ event_out.op = "analyze_attention_patterns"
    /\ Len(gaze_points) >= 2
    /\ gaze_points[1].timestamp > 0
    /\ event_out.analysis.total_duration > 0
    /\ event_out.analysis.regions = <<>>
    /\ event_out.analysis.average_fixation_duration = 0

\* C17: a sequence whose points all have confidence 0 is summarized with no
\* fixation, no saccade and average_fixation_duration 0, whatever the
\* coordinates and timestamps.
C17_ZeroConfidenceNotClassified ==
    (/\ event_out.op = "analyze_attention_patterns"
     /\ \A i \in 1..Len(gaze_points) : gaze_points[i].confidence = 0)
    => /\ event_out.analysis.regions = <<>>
       /\ event_out.analysis.saccade_count = 0
       /\ event_out.analysis.average_fixation_duration = 0

----------------------------------------------------------------------------
\* Heatmap engine (heatmap.cpp)
\*
\* A Mat is a record [rows, cols, channels, data] with data[y][x] the pixel
\* at row y and column x, both 0-based; the empty Mat has no rows and no
\* columns.  Kernel values and grid cells are in 1/KernelScale.

KernelScale == 10000

EmptyMat == [rows |-> 0, cols |-> 0, channels |-> 0, data |-> <<>>]

\* Mat::zeros(rows, cols, CV_32F)
Zeros(rows, cols) ==
    [rows |-> rows, cols |-> cols, channels |-> 1,
     data |-> [y \in 0..(rows - 1) |-> [x \in 0..(cols - 1) |-> 0]]]

\* the values of a Mat's pixels
Values(m) == {m.data[y][x] : y \in 0..(m.rows - 1), x \in 0..(m.cols - 1)}

\* heatmap_config as the process starts; factors in tenths
DefaultHeatmapConfig ==
    [color_scheme |-> "sequential_blue", intensity_multiplier |-> Tenth,
     blur_radius |-> 15, resolution_factor |-> Tenth, alpha_transparency |-> 6]

\* exp(-d2 / (2 * sigma * sigma)) with sigma = radius / 3, in 1/KernelScale,
\* for the squared distances d2 within a kernel of that radius
GaussianValue(radius, d2) ==
    IF d2 = 0 THEN KernelScale
    ELSE IF radius = 1
    THEN CASE d2 = 1 -> 111
           [] d2 = 2 -> 1
    ELSE CASE d2 = 1 -> 3247
           [] d2 = 2 -> 1054
           [] d2 = 4 -> 111
           [] d2 = 5 -> 36
           [] d2 = 8 -> 1

\* create_gaussian_kernel: the values divided by their sum
create_gaussian_kernel(radius) ==
    LET size == 2 * radius + 1
        value == [ky \in 0..(size - 1) |-> [kx \in 0..(size - 1) |->
                    GaussianValue(radius, (kx - radius) * (kx - radius)
                                            + (ky - radius) * (ky - radius))]]
        sum == SumSeq([i \in 1..(size * size) |->
                         value[(i - 1) \div size][(i - 1) % size]])
    IN  [ky \in 0..(size - 1) |-> [kx \in 0..(size - 1) |->
            RoundDiv(value[ky][kx] * KernelScale, sum)]]

CellOfClamped(v, cells) == Min((v * cells) \div Scale, cells - 1)

\* the grid cell of a normalized coordinate: (int)(v * cells)
CellOf(v, cells) == (v * cells) \div Scale

NeverBelowGate(p) == p.confidence < 0

\* the confidence gate: points with confidence < 0.5f are skipped
BelowGate(p) == p.confidence < ConfScale \div 2

InGridNoUpper(hx, hy, cols, rows) == hx >= 0 /\ hy >= 0

\* hx >= 0 && hx < heatmap_width && hy >= 0 && hy < heatmap_height
InGrid(hx, hy, cols, rows) == hx >= 0 /\ hx < cols /\ hy >= 0 /\ hy < rows

\* the accesses the kernel loops make for the point p: the grid cell
\* (hy, hx) written and the kernel cell (ky, kx) read
KernelWrites(p, cols, rows, config) ==
    LET x == CellOf(p.x, cols)
        y == CellOf(p.y, rows)
        kernel_radius == config.blur_radius
    IN  IF BelowGate(p) THEN {}
        ELSE IF x < 0 \/ x >= cols \/ y < 0 \/ y >= rows THEN {}
        ELSE {w \in {[hx |-> x + kx, hy |-> y + ky,
                      ky |-> ky + kernel_radius, kx |-> kx + kernel_radius] :
                        kx \in (-kernel_radius)..kernel_radius,
                        ky \in (-kernel_radius)..kernel_radius} :
                InGrid(w.hx, w.hy, cols, rows)}

\* one iteration of the accumulation loop: the grid after the point p
Deposit(grid, p, kernel, config) ==
    LET writes == KernelWrites(p, grid.cols, grid.rows, config)
        weighted_value(w) ==
            RoundDiv(kernel[w.ky][w.kx] * p.confidence * config.intensity_multiplier,
                     ConfScale * Tenth)
    IN  [grid EXCEPT !.data =
            [hy \in 0..(grid.rows - 1) |-> [hx \in 0..(grid.cols - 1) |->
                LET here == {w \in writes : w.hx = hx /\ w.hy = hy}
                IN  IF here = {} THEN grid.data[hy][hx]
                    ELSE grid.data[hy][hx] + weighted_value(CHOOSE w \in here : TRUE)]]]

RECURSIVE Accumulate(_, _, _, _)
Accumulate(grid, pts, kernel, config) ==
    IF pts = <<>> THEN grid
    ELSE Accumulate(Deposit(grid, Head(pts), kernel, config), Tail(pts), kernel, config)

SetMax(S) == CHOOSE v \in S : \A u \in S : u <= v

SetMin(S) == CHOOSE v \in S : \A u \in S : v <= u

\* minMaxLoc and the min-max normalization, then convertTo(CV_8U).  With
\* max_val > 0 and max_val = min_val every cell is 0 / 0, a NaN, whose
\* conversion to 8 bits is not defined: nan8 is the byte the build produces.
Normalize(grid, nan8) ==
    LET min_val == SetMin(Values(grid))
        max_val == SetMax(Values(grid))
        divides == max_val > 0
        by_zero == divides /\ max_val - min_val = 0
        Byte(v) == IF ~divides THEN 0
                   ELSE IF by_zero THEN nan8
                   ELSE RoundDiv((v - min_val) * 255, max_val - min_val)
    IN  [min_val |-> min_val, max_val |-> max_val,
         divided_by_zero |-> by_zero,
         heatmap_8bit |->
             [grid EXCEPT !.data =
                 [y \in 0..(grid.rows - 1) |-> [x \in 0..(grid.cols - 1) |->
                     Byte(grid.data[y][x])]]]]

\* apply_color_scheme with the scheme "sequential_blue": COLORMAP_WINTER
\* maps the byte v to the pixel (B, G, R) = (255 - v/2, v, 0)
apply_color_scheme(m, scheme) ==
    [rows |-> m.rows, cols |-> m.cols, channels |-> 3,
     data |-> [y \in 0..(m.rows - 1) |-> [x \in 0..(m.cols - 1) |->
                 <<255 - m.data[y][x] \div 2, m.data[y][x], 0>>]]]

\* generate_heatmap: what it returns (image) or that it threw, with the
\* values of its locals; field is heatmap_8bit before it is coloured and
\* writes[i] are the accesses made for the i-th point.  colored_heatmap is declared empty and never
\* assigned: apply_color_scheme writes the coloured field into heatmap_8bit,
\* and cv::resize throws on an empty source.
generate_heatmap(pts, width, height, config, nan8) ==
    LET heatmap_width == (width * config.resolution_factor) \div Tenth
        heatmap_height == (height * config.resolution_factor) \div Tenth
        heatmap == Zeros(heatmap_height, heatmap_width)
    IN  IF pts = <<>>
        THEN [op |-> "generate_heatmap", threw |-> FALSE, image |-> heatmap,
              normalized |-> FALSE, grid |-> heatmap,
              writes |-> <<>>,
              min_val |-> 0, max_val |-> 0, divided_by_zero |-> FALSE,
              field |-> EmptyMat, heatmap_8bit |-> EmptyMat]
        ELSE LET kernel == create_gaussian_kernel(config.blur_radius)
                 grid == Accumulate(heatmap, pts, kernel, config)
                 norm == Normalize(grid, nan8)
                 colored_heatmap == EmptyMat
             IN  [op |-> "generate_heatmap",
                  threw |-> config.resolution_factor # Tenth,
                  image |-> colored_heatmap,
                  normalized |-> TRUE, grid |-> grid,
                  writes |-> [i \in 1..Len(pts) |->
                                KernelWrites(pts[i], heatmap_width,
                                             heatmap_height, config)],
                  min_val |-> norm.min_val, max_val |-> norm.max_val,
                  divided_by_zero |-> norm.divided_by_zero,
                  field |-> norm.heatmap_8bit,
                  heatmap_8bit |-> apply_color_scheme(norm.heatmap_8bit,
                                                      config.color_scheme)]

----------------------------------------------------------------------------
\* generate_heatmap called on bounded inputs

MaxHeatPoints == 2

\* a confident point in the middle, the same below the gate, the top-left
\* corner at the gate, a point on the right edge (x = 1.0), one on the
\* bottom edge (y = 1.0), a point in the lower left quarter, and the
\* sentinel of an invalid detection
HeatPoints ==
    {GazePoint(Scale \div 2, Scale \div 2, ConfScale, 0),
     GazePoint(Scale \div 2, Scale \div 2, (2 * ConfScale) \div 5, 0),
     GazePoint(0, 0, ConfScale \div 2, 0),
     GazePoint(Scale, Scale \div 2, ConfScale, 0),
     GazePoint(Scale \div 2, Scale, ConfScale, 0),
     GazePoint(Scale \div 4, (3 * Scale) \div 4, ConfScale, 0),
     ZeroGaze}

HeatPointLists == UNION {[1..n -> HeatPoints] : n \in 0..MaxHeatPoints}

\* output sizes, resolution factors 0.5, 1 and 1.5, blur radii
Widths == {2, 3}

Heights == {2}

ResolutionFactors == {5, 10, 15}

BlurRadii == {1, 2}

NaNBytes == {0, 255}

\* the caller's arguments
InitHeatmap ==
    /\ InitSession
    /\ gaze_points = <<>>
    /\ event_out = NoEvents
    /\ first_saccades = NotCalled
    /\ \E pts \in HeatPointLists, width \in Widths, height \in Heights,
          resolution_factor \in ResolutionFactors, blur_radius \in BlurRadii :
          heat_in = [gaze_points |-> pts, width |-> width, height |-> height,
                     config |-> [DefaultHeatmapConfig EXCEPT
                                    !.resolution_factor = resolution_factor,
                                    !.blur_radius = blur_radius]]
    /\ heat_out = NoHeatmap

GenerateHeatmap(nan8) ==
    /\ heat_out' = generate_heatmap(heat_in.gaze_points, heat_in.width,
                                    heat_in.height, heat_in.config, nan8)
    /\ UNCHANGED <<session_vars, gaze_points, event_out, first_saccades, heat_in>>

NextHeatmap == \E nan8 \in NaNBytes : GenerateHeatmap(nan8)

SpecHeatmap == InitHeatmap /\ [][NextHeatmap]_vars

----------------------------------------------------------------------------
\* Claims about the heatmap engine

\* C18: for an empty point list generate_heatmap returns a non-empty
\* all-zero field of the requested width x height, for every resolution
\* factor.
C18_EmptyInputRequestedSize ==
    (heat_out.op = "generate_heatmap" /\ heat_in.gaze_points = <<>>)
    => /\ ~heat_out.threw
       /\ heat_out.image # EmptyMat
       /\ Values(heat_out.image) = {0}
       /\ heat_out.image.cols = heat_in.width
       /\ heat_out.image.rows = heat_in.height

\* C19: for a non-empty point list the image generate_heatmap returns is
\* the colour-mapped field, non-empty and exactly width x height, with a
\* resolution factor of 1 and with any other.
C19_ReturnsColouredField ==
    (heat_out.op = "generate_heatmap" /\ heat_in.gaze_points # <<>>)
    => /\ ~heat_out.threw
       /\ heat_out.image # EmptyMat
       /\ heat_out.image.channels = 3
       /\ heat_out.image.cols = heat_in.width
       /\ heat_out.image.rows = heat_in.height
       /\ heat_in.config.resolution_factor = Tenth
          => heat_out.image = heat_out.heatmap_8bit

\* C20: the min-max normalization never divides by zero: when the
\* accumulated grid has zero range, all zero or uniformly positive, the
\* division is skipped and the 8-bit field is all zero.
C20_ZeroRangeNotDivided ==
    (/\ heat_out.op = "generate_heatmap"
     /\ heat_out.normalized
     /\ heat_out.max_val = heat_out.min_val)
    => /\ ~heat_out.divided_by_zero
       /\ Values(heat_out.field) = {0}

\* the points of a list that pass the confidence gate of 0.5
AtOrAboveGate(pts) == SelectSeq(pts, LAMBDA p : 2 * p.confidence >= ConfScale)

\* C21: a point whose confidence is below the gate changes no grid cell, so
\* the accumulated grid is the grid of the points at or above the gate; the
\* zero-confidence sentinel of an invalid detection never contributes.
C21_BelowGateSkipped ==
    (heat_out.op = "generate_heatmap" /\ heat_out.normalized)
    => LET pts == heat_in.gaze_points
           cfg == heat_in.config
       IN  /\ \A i \in 1..Len(pts) :
                2 * pts[i].confidence < ConfScale => heat_out.writes[i] = {}
           /\ heat_out.grid
                = Accumulate(Zeros(heat_out.grid.rows, heat_out.grid.cols),
                             AtOrAboveGate(pts),
                             create_gaussian_kernel(cfg.blur_radius), cfg)
           /\ (\A i \in 1..Len(pts) : pts[i] = ZeroGaze)
              => Values(heat_out.grid) = {0}

\* C21 witness: a list with a point below the gate and a point above it,
\* both in the middle of the grid; only the second one deposited.
C21_Witness ==
    /\ heat_out.op = "generate_heatmap"
    /\ Len(heat_in.gaze_points) = 2
    /\ heat_in.gaze_points[1].confidence = (2 * ConfScale) \div 5
    /\ heat_in.gaze_points[2].confidence = ConfScale
    /\ heat_in.gaze_points[1].x = heat_in.gaze_points[2].x
    /\ heat_out.writes[1] = {}
    /\ heat_out.writes[2] # {}

\* C22: kernel deposits are clipped at the grid edges: every cell written
\* lies inside the grid and every kernel cell read has its indices in
\* [0, 2 * radius].
C22_DepositsClipped ==
    (heat_out.op = "generate_heatmap" /\ heat_out.normalized)
    => \A i \in 1..Len(heat_out.writes) : \A w \in heat_out.writes[i] :
          /\ 0 <= w.hx /\ w.hx < heat_out.grid.cols
          /\ 0 <= w.hy /\ w.hy < heat_out.grid.rows
          /\ 0 <= w.kx /\ w.kx <= 2 * heat_in.config.blur_radius
          /\ 0 <= w.ky /\ w.ky <= 2 * heat_in.config.blur_radius

\* C22 witness: a point whose kernel reaches over the edge of the grid: it
\* wrote cells, but fewer than the kernel has.
C22_Witness ==
    /\ heat_out.op = "generate_heatmap"
    /\ \E i \in 1..Len(heat_out.writes) :
          /\ heat_out.writes[i] # {}
          /\ Cardinality(heat_out.writes[i])
               < (2 * heat_in.config.blur_radius + 1)
                   * (2 * heat_in.config.blur_radius + 1)
          /\ \E w \in heat_out.writes[i] : w.hx = heat_out.grid.cols - 1

\* C30: a point whose x or y is exactly 1.0 maps to the grid index
\* heatmap_width or heatmap_height, fails the bounds check and deposits
\* nothing, whatever its confidence; only points with x and y in [0,1)
\* deposit a kernel.
C30_UpperEdgeDropped ==
    (heat_out.op = "generate_heatmap" /\ heat_out.normalized)
    => \A i \in 1..Len(heat_in.gaze_points) :
          LET p == heat_in.gaze_points[i]
          IN  /\ p.x = Scale => /\ CellOf(p.x, heat_out.grid.cols) = heat_out.grid.cols
                                /\ heat_out.writes[i] = {}
              /\ p.y = Scale => /\ CellOf(p.y, heat_out.grid.rows) = heat_out.grid.rows
                                /\ heat_out.writes[i] = {}
              /\ heat_out.writes[i] # {} => p.x < Scale /\ p.y < Scale

\* C30 witness: a fully confident point on the right edge that deposited
\* nothing, next to a point inside that did.
C30_Witness ==
    /\ heat_out.op = "generate_heatmap"
    /\ \E i \in 1..Len(heat_in.gaze_points) :
          /\ heat_in.gaze_points[i].x = Scale
          /\ heat_in.gaze_points[i].confidence = ConfScale
          /\ heat_out.writes[i] = {}
    /\ \E i \in 1..Len(heat_in.gaze_points) : heat_out.writes[i] # {}

----------------------------------------------------------------------------
\* Further claims about the batch run, the estimator and the session

\* C23: a batch run over a video with zero frames, or in which no gaze
\* point passes the confidence gate, completes with a zero/empty result and
\* not with an error return code.
C23_InputAbsentNotAnError ==
    last_op = "export_no_points" => ret_code = 0

\* C24: calculate_gaze_direction smooths exactly when an anchor exists and
\* the new point's confidence is at least min_confidence_threshold; each
\* coordinate is then alpha * anchor + (1 - alpha) * new, and in every
\* other case it is the clamped unsmoothed estimate.  Smoothing changes
\* neither the confidence nor the timestamp.
C24_SmoothingExactlyWhenAnchored ==
    [][(/\ last_op' \in {"calculate_gaze_direction", "frame_ok"}
        /\ eye_data'.valid)
       => LET raw == RawGaze(eye_data', gaze_config)
              alpha == gaze_config.smoothing_factor
              Blend(anchor, new) == alpha * anchor + (Tenth - alpha) * new
          IN  /\ ret_point'.confidence = raw.confidence
              /\ ret_point'.timestamp = raw.timestamp
              /\ IF prev_gaze_valid
                    /\ raw.confidence >= gaze_config.min_confidence_threshold
                 THEN /\ 2 * Abs(Tenth * ret_point'.x - Blend(prev_gaze.x, raw.x))
                           <= Tenth
                      /\ 2 * Abs(Tenth * ret_point'.y - Blend(prev_gaze.y, raw.y))
                           <= Tenth
                 ELSE /\ ret_point'.x = raw.x
                      /\ ret_point'.y = raw.y]_vars

\* C24 witness: with alpha = 0.3 a confident point was returned away from
\* its unsmoothed estimate, pulled towards the anchor.
C24_Witness ==
    /\ last_op \in {"calculate_gaze_direction", "frame_ok"}
    /\ eye_data.valid
    /\ gaze_config.smoothing_factor = 3
    /\ ret_point.confidence >= gaze_config.min_confidence_threshold
    /\ ret_point.x # RawGaze(eye_data, gaze_config).x

\* The estimator and the session under a configuration file that sets the
\* key min_confidence_threshold: to 0 (no gating) or to the default

Thresholds == {0, DefaultGazeConfig.min_confidence_threshold}

\* load_gaze_direction_config on a file that holds min_confidence_threshold
load_min_confidence_threshold(threshold) ==
    /\ UNCHANGED analysis_vars
    /\ gaze_config' = [gaze_config EXCEPT !.min_confidence_threshold = threshold]
    /\ last_op' = "load_gaze_direction_config"
    /\ ret_code' = 0
    /\ ret_point' = ZeroGaze
    /\ UNCHANGED <<prev_gaze, prev_gaze_valid, realtime_state, now, eye_data, ingested>>

NextAnchor ==
    \/ \E threshold \in Thresholds : load_min_confidence_threshold(threshold)
    \/ \E e \in CallerDetections(now + 1) : CallCalculateGazeDirection(e)
    \/ \E camera_id \in CameraIds, opened \in BOOLEAN :
          init_realtime_processing(camera_id, opened)
    \/ \E got_frame \in BOOLEAN : \E frame \in IF got_frame THEN Frames ELSE {NoFrame} :
          process_realtime_frame(got_frame, frame)
    \/ cleanup_realtime_processing
    \/ \E opened \in BOOLEAN : \E video \in IF opened THEN Videos ELSE {<<>>} :
          \E written \in IF opened THEN BOOLEAN ELSE {FALSE} :
             export_analysis_to_json_wrapper(opened, video, written)

SpecAnchor == Init /\ [][NextAnchor]_vars

\* a step in which calculate_gaze_direction ran once and returned ret_point'
EstimatorReturned == last_op' \in {"calculate_gaze_direction", "frame_ok"}

\* C25: the anchor, once set, is the most recently returned GazePoint whose
\* confidence was at least min_confidence_threshold, the smoothed output,
\* and no operation ever clears prev_gaze_valid once it is true.
C25_AnchorIsLastAccepted ==
    [][/\ prev_gaze_valid => prev_gaze_valid'
       /\ EstimatorReturned
          => IF ret_point'.confidence >= gaze_config.min_confidence_threshold
             THEN prev_gaze_valid' => prev_gaze' = ret_point'
             ELSE /\ prev_gaze' = prev_gaze
                  /\ prev_gaze_valid' = prev_gaze_valid]_vars

\* C25 amended: the anchor is the most recently returned GazePoint of a
\* valid detection whose confidence was at least min_confidence_threshold;
\* the sentinel of an invalid detection never becomes the anchor, whatever
\* the threshold; and no operation clears prev_gaze_valid once it is true.
C25_AnchorIsLastAcceptedValid ==
    [][/\ prev_gaze_valid => prev_gaze_valid'
       /\ EstimatorReturned
          => IF /\ eye_data'.valid
                /\ ret_point'.confidence >= gaze_config.min_confidence_threshold
             THEN prev_gaze_valid' /\ prev_gaze' = ret_point'
             ELSE /\ prev_gaze' = prev_gaze
                  /\ prev_gaze_valid' = prev_gaze_valid
       /\ last_op' \in {"load_gaze_direction_config", "init_already", "init_failed",
                        "init_ok", "frame_not_initialized", "frame_not_read",
                        "frame_invalid", "cleanup", "cleanup_noop",
                        "export_not_opened"}
          => /\ prev_gaze' = prev_gaze
             /\ prev_gaze_valid' = prev_gaze_valid]_vars

\* C25 witness: with the threshold at 0 and an anchor set, the estimator
\* returned the sentinel of an invalid detection and the anchor is still
\* the earlier point.
C25_Witness ==
    /\ last_op = "calculate_gaze_direction"
    /\ ~eye_data.valid
    /\ gaze_config.min_confidence_threshold = 0
    /\ ret_point.confidence = 0
    /\ prev_gaze_valid
    /\ prev_gaze # ret_point
    /\ prev_gaze.timestamp < ret_point.timestamp

\* C26: every region detect_fixations emits has visit_count >= 2: a run of
\* a single point is never emitted, even when min_duration_ms is 0 and its
\* duration of 0 would meet the minimum; so there are at most floor(n/2)
\* regions.
C26_RegionsHaveTwoPoints ==
    event_out.op \in {"detect_fixations", "detect_fixations_no_minimum"}
    => /\ \A k \in 1..Len(event_out.fixations) :
             event_out.fixations[k].visit_count >= 2
       /\ 2 * Len(event_out.fixations) <= Len(gaze_points)
       /\ Len(event_out.fixations)
            <= Cardinality({k \in 1..Len(event_out.runs) :
                              RunLength(event_out.runs[k]) >= 2})

\* C26 witness: with min_duration_ms = 0 a run of two points of duration 0
\* was emitted and a run of a single point was not.
C26_Witness ==
    /\ event_out.op = "detect_fixations_no_minimum"
    /\ \E k \in 1..Len(event_out.fixations) : event_out.fixations[k].duration = 0
    /\ \E k \in 1..Len(event_out.runs) : RunLength(event_out.runs[k]) = 1
    /\ Len(event_out.fixations)
         = Cardinality({k \in 1..Len(event_out.runs) :
                          RunLength(event_out.runs[k]) >= 2})

\* C27: for an input with non-decreasing timestamps the durations of the
\* regions analyze_attention_patterns returns sum to at most
\* total_duration.
C27_FixationsWithinTotal ==
    (/\ event_out.op = "analyze_attention_patterns"
     /\ \A i \in 1..(Len(gaze_points) - 1) :
           gaze_points[i].timestamp <= gaze_points[i + 1].timestamp)
    => LET regions == event_out.analysis.regions
       IN  SumSeq([k \in 1..Len(regions) |-> regions[k].duration])
             <= event_out.analysis.total_duration

\* C27 witness: two fixations with a jump between them; their durations sum
\* to less than the total.
C27_Witness ==
    /\ event_out.op = "analyze_attention_patterns"
    /\ Len(event_out.analysis.regions) = 2
    /\ event_out.analysis.regions[1].duration
         + event_out.analysis.regions[2].duration
         < event_out.analysis.total_duration

\* C28: in every state reachable by interleaving init_realtime_processing
\* (succeeding or failing), process_realtime_frame and
\* cleanup_realtime_processing, a session that is not initialized has an
\* empty rolling buffer; so the snapshot taken after a stop is empty.
C28_StoppedSessionIsEmpty ==
    ~realtime_state.is_initialized => get_realtime_history = <<>>

\* C28 witness: a session that ingested a frame has been stopped.
C28_Witness ==
    /\ last_op = "cleanup"
    /\ ~realtime_state.is_initialized
    /\ eye_data.valid
    /\ prev_gaze_valid
    /\ get_realtime_history = <<>>

\* C29: process_realtime_frame called when the session is not initialized or
\* when the camera yields no frame returns the all-zero GazePoint and leaves
\* the buffer, the anchor and is_initialized unchanged.
C29_NoFrameReturnsZero ==
    [][last_op' \in {"frame_not_initialized", "frame_not_read"}
       => /\ ret_point'.x = 0
          /\ ret_point'.y = 0
          /\ ret_point'.confidence = 0
          /\ ret_point'.timestamp = 0
          /\ UNCHANGED <<realtime_state, prev_gaze, prev_gaze_valid>>]_vars

\* C29 witness: the camera yielded no frame in a session whose buffer and
\* anchor were set.
C29_Witness ==
    /\ last_op = "frame_not_read"
    /\ realtime_state.is_initialized
    /\ realtime_state.recent_gaze_points # <<>>
    /\ prev_gaze_valid
    /\ ret_point = ZeroGaze

====
